---- MODULE Spec2Model ----
(***************************************************************************)
(* A model of velox/common/memory/Memory.cpp: the MemoryPool tree          *)
(* (addChild, dropChild, the destructor, getChildCount, visitChildren),    *)
(* the size-class function getPreferredSize, the process default memory    *)
(* manager, the mapped-memory allocator and the heap allocator.            *)
(***************************************************************************)
EXTENDS Integers, Sequences, FiniteSets, TLC

(***************************************************************************)
(* Bounds of the model.                                                    *)
(***************************************************************************)
\* Pools that can ever exist: the root and the pools addChild creates.
MaxPools == 3

Pools == 0 .. (MaxPools - 1)
\* Two threads call into the pool tree concurrently.
Threads == {1, 2}
Names == {"a", "b"}
NoPool == -1
NoThread == 0
RootPool == 0

(***************************************************************************)
(* State of the pool tree.                                                 *)
(*   life      where each pool object is in its lifetime                   *)
(*   name      MemoryPool::name_                                           *)
(*   parent    MemoryPool::parent_ (a shared_ptr: counted in refs)         *)
(*   capped    the capped flag of the pool                                 *)
(*   tracker   whether the pool has a memory usage tracker                 *)
(*   children  MemoryPool::children_ (raw pointers, in insertion order)    *)
(*   refs      the use count of the shared_ptr control block of the pool   *)
(*   held      whether a caller owns a shared_ptr to the pool              *)
(*   mutex     MemoryPool::childrenMutex_: the thread holding it in        *)
(*             exclusive mode, or NoThread                                 *)
(*   pc, op    each thread's position and the locals of its call           *)
(*   nextId    the identity the next constructed pool gets                 *)
(*   aborted   a VELOX_CHECK failed inside a destructor                    *)
(***************************************************************************)
VARIABLES life, name, parent, capped, tracker, children, refs, held, mutex,
          pc, op, nextId, aborted

(***************************************************************************)
(* State of a getPreferredSize call: the requested size and the result     *)
(* (NoResult before the call).                                             *)
(***************************************************************************)
VARIABLES reqSize, prefSize

(***************************************************************************)
(* State of the process default memory manager.                            *)
(*   flag         FLAGS_use_mmap_allocator_for_memory_pool                 *)
(*   constructed  the allocator variants whose process default manager     *)
(*                has been constructed                                     *)
(*   firstMgr     the manager the first getProcessDefaultMemoryManager()   *)
(*                call returned, lastMgr the one the latest call returned  *)
(*   rootPools    per manager, the caps of the pools created under its     *)
(*                root by getDefaultMemoryPool                             *)
(*   lastPoolMgr  the manager whose root got the latest such pool          *)
(***************************************************************************)
VARIABLES flag, constructed, firstMgr, lastMgr, rootPools, lastPoolMgr

(***************************************************************************)
(* State of the mapped-memory allocator.                                   *)
(*   blocks    the mapping manager's outstanding blocks: per address the   *)
(*             size it was allocated with and its bytes, or Free           *)
(*   lastCall  the latest allocator call: its arguments, its result, the   *)
(*             calls it made to the mapping manager, the bytes it copied   *)
(***************************************************************************)
VARIABLES blocks, lastCall

sizeVars == <<reqSize, prefSize>>
mgrVars == <<flag, constructed, firstMgr, lastMgr, rootPools, lastPoolMgr>>
allocVars == <<blocks, lastCall>>

poolVars == <<life, name, parent, capped, tracker, children, refs, held,
              mutex, pc, op, nextId, aborted>>

\* A step of the pool tree: the process has not aborted, and nothing else moves.
PoolStep == ~aborted /\ UNCHANGED <<sizeVars, mgrVars, allocVars>>

Idle(t) == pc[t] = "idle"

NoOp == [kind |-> "none", pool |-> NoPool, name |-> "", child |-> NoPool,
         snap |-> <<>>, status |-> "none", ret |-> 0]

\* What a thread keeps of a call that has returned.
Done(k, st) == [NoOp EXCEPT !.kind = k, !.status = st]

\* A call on pool p is in flight (its caller keeps its handle until it returns).
InCall(p) == \E t \in Threads : pc[t] # "idle" /\ op[t].pool = p

\* A caller may call into p: the pool is alive and the caller owns a handle.
Callable(p) == life[p] = "live" /\ held[p]

InitPools ==
    /\ life = [p \in Pools |-> IF p = RootPool THEN "live" ELSE "unborn"]
    /\ name = [p \in Pools |-> IF p = RootPool THEN "root" ELSE ""]
    /\ parent = [p \in Pools |-> NoPool]
    /\ capped = [p \in Pools |-> FALSE]
    /\ tracker \in {[p \in Pools |-> p = RootPool /\ b] : b \in BOOLEAN}
    /\ children = [p \in Pools |-> <<>>]
    /\ refs = [p \in Pools |-> IF p = RootPool THEN 1 ELSE 0]
    /\ held = [p \in Pools |-> p = RootPool]
    /\ mutex = [p \in Pools |-> NoThread]
    /\ pc = [t \in Threads |-> "idle"]
    /\ op = [t \in Threads |-> NoOp]
    /\ nextId = 1
    /\ aborted = FALSE

(***************************************************************************)
(* Helpers of the pool operations.                                         *)
(***************************************************************************)
\* Thread t holds the mutex of p in shared mode: it is inside the loop of
\* visitChildren on p (getChildCount holds it within one atomic step).
HoldsShared(t, p) == pc[t] = "vc_visit" /\ op[t].pool = p

\* folly::SharedMutex::WriteHolder: exclusive mode is granted when nobody
\* holds the mutex, in either mode.
WriteHolderAcquirable_NoLock(p) == TRUE

WriteHolderAcquirable(p) ==
    mutex[p] = NoThread /\ \A t \in Threads : ~HoldsShared(t, p)

\* folly::SharedMutex::ReadHolder: shared mode is granted when no writer holds it.
ReadHolderAcquirable(p) == mutex[p] = NoThread

\* genChild: the name collides with a child of p.
NameCollides(p, n) == \E i \in 1 .. Len(children[p]) : name[children[p][i]] = n

\* if (isMemoryCapped()) child->capMemoryAllocation();
InheritCap_Never(p) == FALSE

InheritCap(p) == capped[p]

\* The use counts after genChild(shared_from_this(), name, cap): the child
\* owns a reference to its parent p, the local `child` owns the new pool c.
RefsAfterGenChild_WeakParent(p, c) == [refs EXCEPT ![c] = 1]

RefsAfterGenChild(p, c) == [refs EXCEPT ![p] = @ + 1, ![c] = 1]

\* VELOX_CHECK(children_.empty()) of the destructor.
ChildrenEmpty_Unchecked(p) == TRUE

ChildrenEmpty(p) == children[p] = <<>>

\* std::find_if + erase of dropChild: the sequence without its entry for c.
EraseChild(s, c) ==
    LET i == CHOOSE k \in 1 .. Len(s) : s[k] = c
    IN  SubSeq(s, 1, i - 1) \o SubSeq(s, i + 1, Len(s))

\* dropChild that erases the entry and every entry behind it.
dropChild_EraseTail(s, c) ==
    IF \E i \in 1 .. Len(s) : s[i] = c
    THEN [found |-> TRUE,
          children |-> SubSeq(s, 1, (CHOOSE k \in 1 .. Len(s) : s[k] = c) - 1)]
    ELSE [found |-> FALSE, children |-> s]

\* dropChild that returns quietly when the child is not registered.
dropChild_IgnoreAbsent(s, c) ==
    IF \E i \in 1 .. Len(s) : s[i] = c
    THEN [found |-> TRUE, children |-> EraseChild(s, c)]
    ELSE [found |-> TRUE, children |-> s]

\* MemoryPool::dropChild on the child vector s (the guard is taken by the
\* caller's step): whether VELOX_CHECK(iter != children_.end()) passed, and
\* the vector afterwards.
dropChild(s, c) ==
    IF \E i \in 1 .. Len(s) : s[i] = c
    THEN [found |-> TRUE, children |-> EraseChild(s, c)]
    ELSE [found |-> FALSE, children |-> s]

\* MemoryPool::getChildCount
getChildCount(p) == Len(children[p])

(***************************************************************************)
(* MemoryPool::addChild                                                    *)
(***************************************************************************)
\* The call is made; the thread now waits for the exclusive children lock.
AddChildCall(t, p, n) ==
    /\ PoolStep /\ Idle(t) /\ Callable(p)
    /\ nextId + Cardinality({u \in Threads : pc[u] = "ac_lock"}) < MaxPools
    /\ pc' = [pc EXCEPT ![t] = "ac_lock"]
    /\ op' = [op EXCEPT ![t] = [NoOp EXCEPT !.kind = "addChild", !.pool = p,
                                            !.name = n, !.status = "running"]]
    /\ UNCHANGED <<life, name, parent, capped, tracker, children, refs, held,
                   mutex, nextId, aborted>>

\* WriteHolder guard; genChild; inheritance of the capped flag.
AddChildBegin_RegisterThenThrow(t) ==
    LET p == op[t].pool
        n == op[t].name
        c == nextId
    IN  /\ PoolStep /\ pc[t] = "ac_lock"
        /\ WriteHolderAcquirable(p)
        /\ IF NameCollides(p, n)
           THEN /\ pc' = [pc EXCEPT ![t] = "idle"]
                /\ op' = [op EXCEPT ![t] = Done("addChild", "failed")]
                /\ children' = [children EXCEPT ![p] = Append(@, c)]
                /\ UNCHANGED <<life, name, parent, capped, tracker, refs,
                               held, mutex, nextId, aborted>>
           ELSE /\ life' = [life EXCEPT ![c] = "live"]
                /\ name' = [name EXCEPT ![c] = n]
                /\ parent' = [parent EXCEPT ![c] = p]
                /\ capped' = [capped EXCEPT ![c] = InheritCap(p)]
                /\ refs' = RefsAfterGenChild(p, c)
                /\ mutex' = [mutex EXCEPT ![p] = t]
                /\ nextId' = nextId + 1
                /\ pc' = [pc EXCEPT ![t] = "ac_track"]
                /\ op' = [op EXCEPT ![t].child = c]
                /\ UNCHANGED <<tracker, children, held, aborted>>

AddChildBegin(t) ==
    LET p == op[t].pool
        n == op[t].name
        c == nextId
    IN  /\ PoolStep /\ pc[t] = "ac_lock"
        /\ WriteHolderAcquirable(p)
        /\ IF NameCollides(p, n)
           THEN \* genChild throws; the guard is released by the unwinding.
                /\ pc' = [pc EXCEPT ![t] = "idle"]
                /\ op' = [op EXCEPT ![t] = Done("addChild", "failed")]
                /\ UNCHANGED <<life, name, parent, capped, tracker, children,
                               refs, held, mutex, nextId, aborted>>
           ELSE /\ life' = [life EXCEPT ![c] = "live"]
                /\ name' = [name EXCEPT ![c] = n]
                /\ parent' = [parent EXCEPT ![c] = p]
                /\ capped' = [capped EXCEPT ![c] = InheritCap(p)]
                /\ refs' = RefsAfterGenChild(p, c)
                /\ mutex' = [mutex EXCEPT ![p] = t]
                /\ nextId' = nextId + 1
                /\ pc' = [pc EXCEPT ![t] = "ac_track"]
                /\ op' = [op EXCEPT ![t].child = c]
                /\ UNCHANGED <<tracker, children, held, aborted>>

\* child->setMemoryUsageTracker(usageTracker->addChild()), made with the
\* exclusive lock held; then emplace_back reads where the vector ends.
AddChildTrack(t) ==
    LET p == op[t].pool
        c == op[t].child
    IN  /\ PoolStep /\ pc[t] = "ac_track"
        /\ tracker' = [tracker EXCEPT ![c] = tracker[p]]
        /\ op' = [op EXCEPT ![t].snap = children[p]]
        /\ pc' = [pc EXCEPT ![t] = "ac_emplace"]
        /\ UNCHANGED <<life, name, parent, capped, children, refs, held,
                       mutex, nextId, aborted>>

\* addChild that registers the child at the front of the vector.
AddChildEmplace_AtFront(t) ==
    LET p == op[t].pool
        c == op[t].child
    IN  /\ PoolStep /\ pc[t] = "ac_emplace"
        /\ children' = [children EXCEPT ![p] = <<c>> \o op[t].snap]
        /\ mutex' = [mutex EXCEPT ![p] = IF @ = t THEN NoThread ELSE @]
        /\ held' = [held EXCEPT ![c] = TRUE]
        /\ pc' = [pc EXCEPT ![t] = "idle"]
        /\ op' = [op EXCEPT ![t] = Done("addChild", "ok")]
        /\ UNCHANGED <<life, name, parent, capped, tracker, refs, nextId,
                       aborted>>

\* addChild that returns with the exclusive lock still held.
AddChildEmplace_KeepsLock(t) ==
    LET p == op[t].pool
        c == op[t].child
    IN  /\ PoolStep /\ pc[t] = "ac_emplace"
        /\ children' = [children EXCEPT ![p] = Append(op[t].snap, c)]
        /\ held' = [held EXCEPT ![c] = TRUE]
        /\ pc' = [pc EXCEPT ![t] = "idle"]
        /\ op' = [op EXCEPT ![t] = Done("addChild", "ok")]
        /\ UNCHANGED <<life, name, parent, capped, tracker, refs, mutex,
                       nextId, aborted>>

\* children_.emplace_back(child.get()) writes the new end of the vector; the
\* guard is released and the owning handle goes to the caller.
AddChildEmplace(t) ==
    LET p == op[t].pool
        c == op[t].child
    IN  /\ PoolStep /\ pc[t] = "ac_emplace"
        /\ children' = [children EXCEPT ![p] = Append(op[t].snap, c)]
        /\ mutex' = [mutex EXCEPT ![p] = IF @ = t THEN NoThread ELSE @]
        /\ held' = [held EXCEPT ![c] = TRUE]
        /\ pc' = [pc EXCEPT ![t] = "idle"]
        /\ op' = [op EXCEPT ![t] = Done("addChild", "ok")]
        /\ UNCHANGED <<life, name, parent, capped, tracker, refs, nextId,
                       aborted>>

(***************************************************************************)
(* Release of an owning handle, MemoryPool::~MemoryPool and dropChild      *)
(***************************************************************************)
\* A caller drops its shared_ptr to p. With the use count at zero the
\* destructor of p starts on this thread.
ReleaseHandle(t, p) ==
    /\ PoolStep /\ Idle(t) /\ Callable(p) /\ ~InCall(p)
    /\ held' = [held EXCEPT ![p] = FALSE]
    /\ refs' = [refs EXCEPT ![p] = @ - 1]
    /\ IF refs[p] = 1
       THEN /\ life' = [life EXCEPT ![p] = "dtor"]
            /\ pc' = [pc EXCEPT ![t] = "dt_check"]
            /\ op' = [op EXCEPT ![t] = [NoOp EXCEPT !.kind = "destroy",
                                        !.pool = p, !.status = "running"]]
       ELSE UNCHANGED <<life, pc, op>>
    /\ UNCHANGED <<name, parent, capped, tracker, children, mutex, nextId,
                   aborted>>

\* The owner of p destroys the pool object itself (delete, or a destructor
\* call) while children are registered in it, whatever its use count: the
\* destructor of p starts on this thread. (With no child registered this is
\* the release above.)
DeletePool(t, p) ==
    /\ PoolStep /\ Idle(t) /\ Callable(p) /\ ~InCall(p)
    /\ children[p] # <<>>
    /\ held' = [held EXCEPT ![p] = FALSE]
    /\ life' = [life EXCEPT ![p] = "dtor"]
    /\ pc' = [pc EXCEPT ![t] = "dt_check"]
    /\ op' = [op EXCEPT ![t] = [NoOp EXCEPT !.kind = "destroy", !.pool = p,
                                            !.status = "running"]]
    /\ UNCHANGED <<name, parent, capped, tracker, children, refs, mutex,
                   nextId, aborted>>

\* ~MemoryPool: VELOX_CHECK(children_.empty()); if (parent_ != nullptr) ...
DtorCheck(t) ==
    LET p == op[t].pool
    IN  /\ PoolStep /\ pc[t] = "dt_check"
        /\ IF ChildrenEmpty(p)
           THEN /\ pc' = [pc EXCEPT ![t] = IF parent[p] = NoPool
                                            THEN "dt_members" ELSE "dt_drop"]
                /\ UNCHANGED <<op, aborted>>
           ELSE \* the check throws out of the destructor
                /\ aborted' = TRUE
                /\ op' = [op EXCEPT ![t].status = "children_not_empty"]
                /\ UNCHANGED pc
        /\ UNCHANGED <<life, name, parent, capped, tracker, children, refs,
                       held, mutex, nextId>>

\* parent_->dropChild(this): WriteHolder guard, find_if, VELOX_CHECK, erase.
DropChild(t) ==
    LET c == op[t].pool
        p == parent[c]
    IN  /\ PoolStep /\ pc[t] = "dt_drop"
        /\ WriteHolderAcquirable(p)
        /\ IF dropChild(children[p], c).found
           THEN /\ children' = [children EXCEPT
                                   ![p] = dropChild(@, c).children]
                /\ pc' = [pc EXCEPT ![t] = "dt_members"]
                /\ UNCHANGED <<op, aborted>>
           ELSE /\ aborted' = TRUE
                /\ op' = [op EXCEPT ![t].status = "child_not_found"]
                /\ UNCHANGED <<children, pc>>
        /\ UNCHANGED <<life, name, parent, capped, tracker, refs, held,
                       mutex, nextId>>

\* The members are destroyed after the destructor's body: parent_ gives up
\* its reference, and the parent's destructor starts if it was the last one.
DtorMembers(t) ==
    LET c == op[t].pool
        p == parent[c]
    IN  /\ PoolStep /\ pc[t] = "dt_members"
        /\ name' = [name EXCEPT ![c] = ""]
        /\ capped' = [capped EXCEPT ![c] = FALSE]
        /\ tracker' = [tracker EXCEPT ![c] = FALSE]
        /\ IF p # NoPool /\ refs[p] = 1
           THEN /\ life' = [life EXCEPT ![c] = "dead", ![p] = "dtor"]
                /\ refs' = [refs EXCEPT ![p] = 0]
                /\ pc' = [pc EXCEPT ![t] = "dt_check"]
                /\ op' = [op EXCEPT ![t].pool = p]
           ELSE /\ life' = [life EXCEPT ![c] = "dead"]
                /\ refs' = IF p = NoPool THEN refs
                           ELSE [refs EXCEPT ![p] = @ - 1]
                /\ pc' = [pc EXCEPT ![t] = "idle"]
                /\ op' = [op EXCEPT ![t] = Done("destroy", "ok")]
        /\ UNCHANGED <<parent, children, held, mutex, nextId, aborted>>

(***************************************************************************)
(* MemoryPool::getChildCount and capMemoryAllocation                       *)
(***************************************************************************)
GetChildCount(t, p) ==
    /\ PoolStep /\ Idle(t) /\ Callable(p)
    /\ ReadHolderAcquirable(p)
    /\ op' = [op EXCEPT ![t] = [NoOp EXCEPT !.kind = "getChildCount",
                                !.status = "ok",
                                !.ret = getChildCount(p)]]
    /\ UNCHANGED <<life, name, parent, capped, tracker, children, refs, held,
                   mutex, pc, nextId, aborted>>

\* capMemoryAllocation sets the capped flag of the pool it is called on.
CapMemoryAllocation(t, p) ==
    /\ PoolStep /\ Idle(t) /\ Callable(p)
    /\ capped' = [capped EXCEPT ![p] = TRUE]
    /\ UNCHANGED <<life, name, parent, tracker, children, refs, held, mutex,
                   pc, op, nextId, aborted>>

(***************************************************************************)
(* MemoryPool::visitChildren                                               *)
(***************************************************************************)
\* The call is made; the thread now waits for the shared children lock.
VisitChildrenCall(t, p) ==
    /\ PoolStep /\ Idle(t) /\ Callable(p)
    /\ pc' = [pc EXCEPT ![t] = "vc_lock"]
    /\ op' = [op EXCEPT ![t] = [NoOp EXCEPT !.kind = "visitChildren",
                                            !.pool = p, !.status = "running"]]
    /\ UNCHANGED <<life, name, parent, capped, tracker, children, refs, held,
                   mutex, nextId, aborted>>

\* ReadHolder guard; the loop starts at the first entry.
VisitChildrenBegin(t) ==
    /\ PoolStep /\ pc[t] = "vc_lock"
    /\ ReadHolderAcquirable(op[t].pool)
    /\ pc' = [pc EXCEPT ![t] = "vc_visit"]
    /\ UNCHANGED <<life, name, parent, capped, tracker, children, refs, held,
                   mutex, op, nextId, aborted>>

\* visitor(child) for the next entry of children_: op.ret entries are done,
\* op.snap are the pools the visitor was given, op.child the latest one.
VisitChild(t) ==
    LET p == op[t].pool
        c == children[p][op[t].ret + 1]
    IN  /\ PoolStep /\ pc[t] = "vc_visit"
        /\ op[t].ret < Len(children[p])
        /\ op' = [op EXCEPT ![t].ret = @ + 1, ![t].child = c,
                            ![t].snap = Append(@, c)]
        /\ UNCHANGED <<life, name, parent, capped, tracker, children, refs,
                       held, mutex, pc, nextId, aborted>>

\* The loop is over: the guard is released and the call returns.
VisitChildrenReturn(t) ==
    /\ PoolStep /\ pc[t] = "vc_visit"
    /\ op[t].ret = Len(children[op[t].pool])
    /\ pc' = [pc EXCEPT ![t] = "idle"]
    /\ op' = [op EXCEPT ![t] = Done("visitChildren", "ok")]
    /\ UNCHANGED <<life, name, parent, capped, tracker, children, refs, held,
                   mutex, nextId, aborted>>

NextPools ==
    \/ \E t \in Threads, p \in Pools, n \in Names : AddChildCall(t, p, n)
    \/ \E t \in Threads : AddChildBegin(t)
    \/ \E t \in Threads : AddChildTrack(t)
    \/ \E t \in Threads : AddChildEmplace(t)
    \/ \E t \in Threads, p \in Pools : ReleaseHandle(t, p)
    \/ \E t \in Threads : DtorCheck(t)
    \/ \E t \in Threads : DropChild(t)
    \/ \E t \in Threads : DtorMembers(t)
    \/ \E t \in Threads, p \in Pools : GetChildCount(t, p)

(***************************************************************************)
(* MemoryPool::getPreferredSize                                            *)
(***************************************************************************)
\* The width of size_t in the model, in bits (64 in the build): sizes are
\* the SizeBits-bit words, and arithmetic on them wraps modulo 2^SizeBits.
SizeBits == 8

RECURSIVE Pow2(_)
Pow2(k) == IF k <= 0 THEN 1 ELSE 2 * Pow2(k - 1)

SizeModulus == Pow2(SizeBits)
SizeT == 0 .. (SizeModulus - 1)
NoResult == -1

\* bits::countLeadingZeros of a word: the zero bits above its highest set bit.
RECURSIVE LeadingZerosFrom(_, _)
LeadingZerosFrom(x, i) ==
    IF i < 0 \/ (x \div Pow2(i)) % 2 = 1 THEN 0
    ELSE 1 + LeadingZerosFrom(x, i - 1)

countLeadingZeros(x) == LeadingZerosFrom(x, SizeBits - 1)

\* getPreferredSize with the exponent of `lower` one too high.
getPreferredSize_BitsOffByOne(size) ==
    IF size < 8 THEN 8
    ELSE LET bits == SizeBits - countLeadingZeros(size)
             lower == Pow2(bits) % SizeModulus
             mid == (lower + (lower \div 2)) % SizeModulus
         IN  IF lower = size THEN size
             ELSE IF mid >= size THEN mid
             ELSE (lower * 2) % SizeModulus

\* getPreferredSize with the comparison against 1.5 * lower made strict.
getPreferredSize_StrictHalf(size) ==
    IF size < 8 THEN 8
    ELSE LET bits == (SizeBits - 1) - countLeadingZeros(size)
             lower == Pow2(bits) % SizeModulus
             mid == (lower + (lower \div 2)) % SizeModulus
         IN  IF lower = size THEN size
             ELSE IF mid > size THEN mid
             ELSE (lower * 2) % SizeModulus

\* size_t MemoryPool::getPreferredSize(size_t size); the source's 63 is
\* SizeBits - 1.
getPreferredSize(size) ==
    IF size < 8 THEN 8
    ELSE LET bits == (SizeBits - 1) - countLeadingZeros(size)
             lower == Pow2(bits) % SizeModulus
             mid == (lower + (lower \div 2)) % SizeModulus
         IN  IF lower = size THEN size
             ELSE IF mid >= size THEN mid
             ELSE (lower * 2) % SizeModulus

InitSize == reqSize \in SizeT /\ prefSize = NoResult

ParkedSize == reqSize = 0 /\ prefSize = NoResult

CallGetPreferredSize ==
    /\ prefSize = NoResult
    /\ prefSize' = getPreferredSize(reqSize)
    /\ UNCHANGED <<reqSize, poolVars, mgrVars, allocVars>>

(***************************************************************************)
(* getProcessDefaultMemoryManager and getDefaultMemoryPool                 *)
(***************************************************************************)
\* Pools that getDefaultMemoryPool creates in a run of the model.
MaxTopPools == 2

Variants == {"mmap", "heap"}
NoManager == "none"
Caps == {1, 2}

\* The variant the flag selects.
SelectedVariant(f) == IF f THEN "mmap" ELSE "heap"

\* MemoryManager<Allocator>::getProcessDefaultManager(): the one manager of
\* the variant, constructed on first use.
getProcessDefaultManager(v) == constructed \cup {v}

InitMgr ==
    /\ flag = FALSE
    /\ constructed = {}
    /\ firstMgr = NoManager
    /\ lastMgr = NoManager
    /\ rootPools = [v \in Variants |-> <<>>]
    /\ lastPoolMgr = NoManager

\* The process changes the flag (gflags are plain assignable globals).
SetFlag(b) ==
    /\ flag # b
    /\ flag' = b
    /\ UNCHANGED <<constructed, firstMgr, lastMgr, rootPools, lastPoolMgr,
                   poolVars, sizeVars, allocVars>>

\* IMemoryManager& getProcessDefaultMemoryManager()
CallGetProcessDefaultMemoryManager ==
    LET v == SelectedVariant(flag)
    IN  /\ constructed' = getProcessDefaultManager(v)
        /\ lastMgr' = v
        /\ firstMgr' = IF firstMgr = NoManager THEN v ELSE firstMgr
        /\ UNCHANGED <<flag, rootPools, lastPoolMgr, poolVars, sizeVars,
                       allocVars>>

\* std::shared_ptr<MemoryPool> getDefaultMemoryPool(int64_t cap)
CallGetDefaultMemoryPool(cap) ==
    LET v == SelectedVariant(flag)
    IN  /\ Len(rootPools["mmap"]) + Len(rootPools["heap"]) < MaxTopPools
        /\ constructed' = getProcessDefaultManager(v)
        /\ lastMgr' = v
        /\ firstMgr' = IF firstMgr = NoManager THEN v ELSE firstMgr
        /\ rootPools' = [rootPools EXCEPT ![v] = Append(@, cap)]
        /\ lastPoolMgr' = v
        /\ UNCHANGED <<flag, poolVars, sizeVars, allocVars>>

(***************************************************************************)
(* MmapMemoryAllocator                                                     *)
(***************************************************************************)
\* Addresses the mapping manager can hand out, and the largest block size.
MaxBlocks == 2
MaxSize == 1

Ptrs == 1 .. MaxBlocks
Null == 0
Sizes == 0 .. MaxSize
Bytes == {0, 1}
Free == [size |-> -1, data |-> <<>>]

Outstanding(bl) == {q \in Ptrs : bl[q] # Free}

\* The bytes a block of n bytes may hold.
Contents(n) == [1 .. n -> Bytes]

Min(a, b) == IF a <= b THEN a ELSE b

\* Results of an allocator call.
Pointer(q) == [kind |-> IF q = Null THEN "null" ELSE "ptr", ptr |-> q]
Unsupported == [kind |-> "unsupported", ptr |-> Null]
NoValue == [kind |-> "void", ptr |-> Null]

\* MappedMemory::allocateBytes(size): a free address with `size` bytes of any
\* content, or null (always null when no address is free, and for a size
\* that is negative or above MaxSize).
allocateBytes(bl, size) ==
    {[ptr |-> Null, blocks |-> bl]} \cup
    IF size \in Sizes
    THEN {[ptr |-> q,
           blocks |-> [bl EXCEPT ![q] = [size |-> size, data |-> d]]] :
              q \in Ptrs \ Outstanding(bl), d \in Contents(size)}
    ELSE {}

\* MappedMemory::freeBytes(p, size)
freeBytes(bl, p, size) == [bl EXCEPT ![p] = Free]

\* The outcomes of a call: the result, the blocks afterwards, the calls made
\* to the mapping manager and the number of bytes copied.
Outcome(res, bl, mm, copied) ==
    [res |-> res, blocks |-> bl, mm |-> mm, copied |-> copied]

\* void* MmapMemoryAllocator::alloc(int64_t size)
MmapAlloc(bl, size) ==
    {Outcome(Pointer(a.ptr), a.blocks, <<<<"allocateBytes", size, a.ptr>>>>, 0) :
        a \in allocateBytes(bl, size)}

\* allocAligned forwarding to alloc instead of refusing.
MmapAllocAligned_ViaAlloc(bl, alignment, size) == MmapAlloc(bl, size)

\* void* MmapMemoryAllocator::allocAligned(uint16_t, int64_t)
MmapAllocAligned(bl, alignment, size) == {Outcome(Unsupported, bl, <<>>, 0)}

\* free without the test for null.
MmapFree_NoNullCheck(bl, p, size) ==
    {Outcome(NoValue, freeBytes(bl, p, size), <<<<"freeBytes", p, size>>>>, 0)}

\* void MmapMemoryAllocator::free(void* p, int64_t size)
MmapFree(bl, p, size) ==
    IF p = Null THEN {Outcome(NoValue, bl, <<>>, 0)}
    ELSE {Outcome(NoValue, freeBytes(bl, p, size),
                  <<<<"freeBytes", p, size>>>>, 0)}

\* memcpy(newAlloc, p, n): the first n bytes of q become those of p.
Memcpy(bl, q, p, n) ==
    [bl EXCEPT ![q].data = [i \in 1 .. Len(@) |->
                               IF i <= n THEN bl[p].data[i] ELSE @[i]]]

\* realloc that frees the old block also when the new allocation failed.
MmapRealloc_FreeOnFailure(bl, p, size, newSize) ==
    UNION {IF p = Null THEN {a}
           ELSE IF a.res.ptr = Null
           THEN {Outcome(a.res, f.blocks, a.mm \o f.mm, 0) :
                    f \in MmapFree(a.blocks, p, size)}
           ELSE {Outcome(a.res, f.blocks, a.mm \o f.mm, Min(size, newSize)) :
                    f \in MmapFree(Memcpy(a.blocks, a.res.ptr, p,
                                          Min(size, newSize)), p, size)} :
           a \in MmapAlloc(bl, newSize)}

\* realloc that frees the old block with the new size.
MmapRealloc_FreesWithNewSize(bl, p, size, newSize) ==
    UNION {IF p = Null \/ a.res.ptr = Null THEN {a}
           ELSE {Outcome(a.res, f.blocks, a.mm \o f.mm, Min(size, newSize)) :
                    f \in MmapFree(Memcpy(a.blocks, a.res.ptr, p,
                                          Min(size, newSize)), p, newSize)} :
           a \in MmapAlloc(bl, newSize)}

\* realloc that, given a null block, allocates the old size.
MmapRealloc_NullAllocatesOldSize(bl, p, size, newSize) ==
    UNION {IF p = Null \/ a.res.ptr = Null THEN {a}
           ELSE {Outcome(a.res, f.blocks, a.mm \o f.mm, Min(size, newSize)) :
                    f \in MmapFree(Memcpy(a.blocks, a.res.ptr, p,
                                          Min(size, newSize)), p, size)} :
           a \in MmapAlloc(bl, IF p = Null THEN size ELSE newSize)}

\* void* MmapMemoryAllocator::realloc(void* p, int64_t size, int64_t newSize)
MmapRealloc(bl, p, size, newSize) ==
    UNION {IF p = Null \/ a.res.ptr = Null THEN {a}
           ELSE {Outcome(a.res, f.blocks, a.mm \o f.mm, Min(size, newSize)) :
                    f \in MmapFree(Memcpy(a.blocks, a.res.ptr, p,
                                          Min(size, newSize)), p, size)} :
           a \in MmapAlloc(bl, newSize)}

\* void* MmapMemoryAllocator::reallocAligned(void*, uint16_t, int64_t, int64_t)
MmapReallocAligned(bl, p, alignment, size, newSize) ==
    {Outcome(Unsupported, bl, <<>>, 0)}

Alignments == {8, 16}

\* The caller passes null, or a block it owns with the size it has.
OwnedArgs == {<<Null, s>> : s \in Sizes} \cup
             {<<q, blocks[q].size>> : q \in Outstanding(blocks)}

Call(fn, p, size, newSize, o) ==
    /\ blocks' = o.blocks
    /\ lastCall' = [op |-> fn, p |-> p, size |-> size, newSize |-> newSize,
                    res |-> o.res, mm |-> o.mm, copied |-> o.copied]
    /\ UNCHANGED <<poolVars, sizeVars, mgrVars>>

NoCall == [op |-> "none", p |-> Null, size |-> 0, newSize |-> 0,
           res |-> NoValue, mm |-> <<>>, copied |-> 0]

InitAlloc == blocks = [q \in Ptrs |-> Free] /\ lastCall = NoCall

CallAlloc(size) ==
    \E o \in MmapAlloc(blocks, size) : Call("alloc", Null, size, 0, o)

CallAllocAligned(alignment, size) ==
    \E o \in MmapAllocAligned(blocks, alignment, size) :
        Call("allocAligned", Null, size, 0, o)

CallRealloc(p, size, newSize) ==
    \E o \in MmapRealloc(blocks, p, size, newSize) :
        Call("realloc", p, size, newSize, o)

CallReallocAligned(p, alignment, size, newSize) ==
    \E o \in MmapReallocAligned(blocks, p, alignment, size, newSize) :
        Call("reallocAligned", p, size, newSize, o)

CallFree(p, size) ==
    \E o \in MmapFree(blocks, p, size) : Call("free", p, size, 0, o)

(***************************************************************************)
(* allocZeroFilled of the mapped-memory allocator                          *)
(***************************************************************************)
\* An int64_t holding x: the product of two int64_t is the low word of the
\* exact product, read as a signed number (what the build's multiply
\* instruction leaves when the exact product does not fit).
WrapInt(x) ==
    LET m == x % SizeModulus
    IN  IF m >= SizeModulus \div 2 THEN m - SizeModulus ELSE m

\* The largest int64_t.
MaxInt == Pow2(SizeBits - 1) - 1

\* An int64_t passed where a size_t is taken.
ToSizeT(x) == x % SizeModulus

Zeros(n) == [i \in 1 .. n |-> 0]

\* std::memset(q, 0, n)
Memset(bl, q, n) ==
    [bl EXCEPT ![q].data = [i \in 1 .. Len(@) |-> IF i <= n THEN 0 ELSE @[i]]]

\* void* MmapMemoryAllocator::allocZeroFilled(int64_t numMembers,
\*                                            int64_t sizeEach)
MmapAllocZeroFilled(bl, numMembers, sizeEach) ==
    LET totalBytes == WrapInt(numMembers * sizeEach)
    IN  {IF a.res.ptr = Null THEN a
         ELSE Outcome(a.res, Memset(a.blocks, a.res.ptr, ToSizeT(totalBytes)),
                      a.mm, 0) :
            a \in MmapAlloc(bl, totalBytes)}

\* The pairs a caller passes as numMembers and sizeEach: among them a
\* negative number and pairs whose exact product does not fit the word.
ZeroFilledArgs ==
    {<<-1, 1>>, <<0, 4>>, <<1, 1>>, <<1, MaxSize>>,
     <<2, Pow2(SizeBits - 2)>>, <<4, Pow2(SizeBits - 2)>>,
     <<MaxInt, MaxInt>>}

\* The two arguments are kept in the size and newSize fields of lastCall.
CallMmapAllocZeroFilled(numMembers, sizeEach) ==
    \E o \in MmapAllocZeroFilled(blocks, numMembers, sizeEach) :
        Call("allocZeroFilled", Null, numMembers, sizeEach, o)

(***************************************************************************)
(* MemoryAllocator: the heap allocator. The blocks are those of the C      *)
(* library's heap.                                                         *)
(***************************************************************************)
\* std::malloc(size): a block of `size` bytes of any content, or null.
std_malloc(bl, size) ==
    {[ptr |-> Null, blocks |-> bl]} \cup
    IF size \in Sizes
    THEN {[ptr |-> q,
           blocks |-> [bl EXCEPT ![q] = [size |-> size, data |-> d]]] :
              q \in Ptrs \ Outstanding(bl), d \in Contents(size)}
    ELSE {}

\* aligned_alloc(alignment, size)
aligned_alloc(bl, alignment, size) == std_malloc(bl, size)

\* std::calloc(num, size): null when num * size does not fit size_t; else a
\* block of num * size zero bytes, or null.
std_calloc(bl, num, size) ==
    {[ptr |-> Null, blocks |-> bl]} \cup
    IF num * size \in Sizes
    THEN {[ptr |-> q,
           blocks |-> [bl EXCEPT ![q] = [size |-> num * size,
                                         data |-> Zeros(num * size)]]] :
              q \in Ptrs \ Outstanding(bl)}
    ELSE {}

\* std::free(p): nothing for null.
std_free(bl, p) == IF p = Null THEN bl ELSE [bl EXCEPT ![p] = Free]

\* std::realloc(p, newSize): malloc for a null p; else null with the block
\* left alone, or the block resized in place or moved, its first
\* min(old, new) bytes kept. For newSize 0 the block may also be freed and
\* null returned.
std_realloc(bl, p, newSize) ==
    IF p = Null THEN std_malloc(bl, newSize)
    ELSE {[ptr |-> Null, blocks |-> bl]}
         \cup (IF newSize = 0
               THEN {[ptr |-> Null, blocks |-> std_free(bl, p)]} ELSE {})
         \cup (IF newSize \in Sizes
               THEN {[ptr |-> q,
                      blocks |-> [std_free(bl, p) EXCEPT
                                    ![q] = [size |-> newSize, data |-> d]]] :
                         q \in {p} \cup (Ptrs \ Outstanding(bl)),
                         d \in {e \in Contents(newSize) :
                                  \A i \in 1 .. Min(bl[p].size, newSize) :
                                      e[i] = bl[p].data[i]}}
               ELSE {})

\* void* MemoryAllocator::alloc(int64_t size)
HeapAlloc(bl, size) ==
    {Outcome(Pointer(a.ptr), a.blocks,
             <<<<"malloc", ToSizeT(size), a.ptr>>>>, 0) :
        a \in std_malloc(bl, ToSizeT(size))}

\* void* MemoryAllocator::allocZeroFilled(int64_t numMembers, int64_t sizeEach)
HeapAllocZeroFilled(bl, numMembers, sizeEach) ==
    {Outcome(Pointer(a.ptr), a.blocks,
             <<<<"calloc", ToSizeT(numMembers), ToSizeT(sizeEach), a.ptr>>>>,
             0) :
        a \in std_calloc(bl, ToSizeT(numMembers), ToSizeT(sizeEach))}

\* void* MemoryAllocator::allocAligned(uint16_t alignment, int64_t size)
HeapAllocAligned(bl, alignment, size) ==
    {Outcome(Pointer(a.ptr), a.blocks,
             <<<<"aligned_alloc", ToSizeT(size), a.ptr>>>>, 0) :
        a \in aligned_alloc(bl, alignment, ToSizeT(size))}

\* void* MemoryAllocator::realloc(void* p, int64_t, int64_t newSize)
HeapRealloc(bl, p, size, newSize) ==
    {Outcome(Pointer(a.ptr), a.blocks,
             <<<<"realloc", p, ToSizeT(newSize), a.ptr>>>>, 0) :
        a \in std_realloc(bl, p, ToSizeT(newSize))}

\* reallocAligned that frees the old block before it looks at newSize.
HeapReallocAligned_FreeFirst(bl, p, alignment, size, newSize) ==
    IF newSize <= 0
    THEN {Outcome(Pointer(Null), std_free(bl, p), <<<<"free", p>>>>, 0)}
    ELSE {IF a.ptr = Null
          THEN Outcome(Pointer(Null), a.blocks,
                       <<<<"aligned_alloc", ToSizeT(newSize), a.ptr>>>>, 0)
          ELSE Outcome(Pointer(a.ptr),
                       std_free(Memcpy(a.blocks, a.ptr, p,
                                       Min(size, newSize)), p),
                       <<<<"aligned_alloc", ToSizeT(newSize), a.ptr>>,
                         <<"free", p>>>>,
                       Min(size, newSize)) :
             a \in aligned_alloc(bl, alignment, ToSizeT(newSize))}

\* void* MemoryAllocator::reallocAligned(void* p, uint16_t alignment,
\*                                       int64_t size, int64_t newSize)
HeapReallocAligned(bl, p, alignment, size, newSize) ==
    IF newSize <= 0
    THEN {Outcome(Pointer(Null), bl, <<>>, 0)}
    ELSE {IF a.ptr = Null
          THEN Outcome(Pointer(Null), a.blocks,
                       <<<<"aligned_alloc", ToSizeT(newSize), a.ptr>>>>, 0)
          ELSE Outcome(Pointer(a.ptr),
                       std_free(Memcpy(a.blocks, a.ptr, p,
                                       Min(size, newSize)), p),
                       <<<<"aligned_alloc", ToSizeT(newSize), a.ptr>>,
                         <<"free", p>>>>,
                       Min(size, newSize)) :
             a \in aligned_alloc(bl, alignment, ToSizeT(newSize))}

\* void MemoryAllocator::free(void* p, int64_t)
HeapFree(bl, p, size) ==
    {Outcome(NoValue, std_free(bl, p), <<<<"free", p>>>>, 0)}

\* New sizes passed to reallocAligned: also a negative one.
HeapNewSizes == -1 .. MaxSize

\* The caller of reallocAligned passes null with size 0, or a block it owns
\* with the size it has (the call copies `size` bytes out of the block).
SizedArgs == {<<Null, 0>>} \cup
             {<<q, blocks[q].size>> : q \in Outstanding(blocks)}

CallHeapAlloc(size) ==
    \E o \in HeapAlloc(blocks, size) : Call("alloc", Null, size, 0, o)

CallHeapAllocZeroFilled(numMembers, sizeEach) ==
    \E o \in HeapAllocZeroFilled(blocks, numMembers, sizeEach) :
        Call("allocZeroFilled", Null, numMembers, sizeEach, o)

CallHeapAllocAligned(alignment, size) ==
    \E o \in HeapAllocAligned(blocks, alignment, size) :
        Call("allocAligned", Null, size, 0, o)

CallHeapRealloc(p, size, newSize) ==
    \E o \in HeapRealloc(blocks, p, size, newSize) :
        Call("realloc", p, size, newSize, o)

CallHeapReallocAligned(p, alignment, size, newSize) ==
    \E o \in HeapReallocAligned(blocks, p, alignment, size, newSize) :
        Call("reallocAligned", p, size, newSize, o)

CallHeapFree(p, size) ==
    \E o \in HeapFree(blocks, p, size) : Call("free", p, size, 0, o)

(***************************************************************************)
(* Specifications                                                          *)
(***************************************************************************)
vars == <<poolVars, sizeVars, mgrVars, allocVars>>

Init == InitPools /\ ParkedSize /\ InitMgr /\ InitAlloc

\* The pool tree left alone: the root, without a usage tracker.
ParkedPools == InitPools /\ ~tracker[RootPool]

InitParked == ParkedPools /\ ParkedSize /\ InitMgr /\ InitAlloc

Next == NextPools

\* The pool tree under callers that add children, count them and release
\* their handles.
Spec == Init /\ [][Next]_vars

\* The pool tree when an owner may also destroy a pool object directly.
NextDelete ==
    \/ NextPools
    \/ \E t \in Threads, p \in Pools : DeletePool(t, p)

SpecDelete == Init /\ [][NextDelete]_vars

\* The pool tree, its root without a usage tracker, under callers that add
\* children, release their handles and cap pools.
NextCap ==
    \/ \E t \in Threads, p \in Pools, n \in Names : AddChildCall(t, p, n)
    \/ \E t \in Threads : AddChildBegin(t)
    \/ \E t \in Threads : AddChildTrack(t)
    \/ \E t \in Threads : AddChildEmplace(t)
    \/ \E t \in Threads, p \in Pools : ReleaseHandle(t, p)
    \/ \E t \in Threads : DtorCheck(t)
    \/ \E t \in Threads : DropChild(t)
    \/ \E t \in Threads : DtorMembers(t)
    \/ \E t \in Threads, p \in Pools : CapMemoryAllocation(t, p)

SpecCap == InitParked /\ [][NextCap]_vars

\* The pool tree, its root without a usage tracker, under callers that add
\* children, visit and count them and release their handles.
NextVisit ==
    \/ \E t \in Threads, p \in Pools, n \in Names : AddChildCall(t, p, n)
    \/ \E t \in Threads : AddChildBegin(t)
    \/ \E t \in Threads : AddChildTrack(t)
    \/ \E t \in Threads : AddChildEmplace(t)
    \/ \E t \in Threads, p \in Pools : ReleaseHandle(t, p)
    \/ \E t \in Threads : DtorCheck(t)
    \/ \E t \in Threads : DropChild(t)
    \/ \E t \in Threads : DtorMembers(t)
    \/ \E t \in Threads, p \in Pools : VisitChildrenCall(t, p)
    \/ \E t \in Threads : VisitChildrenBegin(t)
    \/ \E t \in Threads : VisitChild(t)
    \/ \E t \in Threads : VisitChildrenReturn(t)
    \/ \E t \in Threads, p \in Pools : GetChildCount(t, p)

SpecVisit == InitParked /\ [][NextVisit]_vars

\* Callers that add children to the root, visit and count the children of
\* any pool and release their handles, under a fair scheduler.
NextFair ==
    \/ \E t \in Threads, n \in Names : AddChildCall(t, RootPool, n)
    \/ \E t \in Threads : AddChildBegin(t)
    \/ \E t \in Threads : AddChildTrack(t)
    \/ \E t \in Threads : AddChildEmplace(t)
    \/ \E t \in Threads, p \in Pools : ReleaseHandle(t, p)
    \/ \E t \in Threads : DtorCheck(t)
    \/ \E t \in Threads : DropChild(t)
    \/ \E t \in Threads : DtorMembers(t)
    \/ \E t \in Threads, p \in Pools : VisitChildrenCall(t, p)
    \/ \E t \in Threads : VisitChildrenBegin(t)
    \/ \E t \in Threads : VisitChild(t)
    \/ \E t \in Threads : VisitChildrenReturn(t)
    \/ \E t \in Threads, p \in Pools : GetChildCount(t, p)

\* The step of t that takes a children lock.
Acquire(t) == AddChildBegin(t) \/ DropChild(t) \/ VisitChildrenBegin(t)

\* The steps of a call of t that wait for nothing.
Proceed(t) ==
    \/ AddChildTrack(t) \/ AddChildEmplace(t)
    \/ DtorCheck(t) \/ DtorMembers(t)
    \/ VisitChild(t) \/ VisitChildrenReturn(t)

\* Threads are parallel: a thread inside a call keeps running; and
\* folly::SharedMutex lets no waiter starve: a thread that finds the lock
\* free again and again gets it.
Fairness ==
    \A t \in Threads : WF_vars(Proceed(t)) /\ SF_vars(Acquire(t))

SpecFair == InitParked /\ [][NextFair]_vars /\ Fairness

\* getPreferredSize applied to every size.
InitSizes == ParkedPools /\ InitSize /\ InitMgr /\ InitAlloc

NextSize == CallGetPreferredSize

SpecSize == InitSizes /\ [][NextSize]_vars

\* The process default manager under changes of the flag.
NextMgr ==
    \/ \E b \in BOOLEAN : SetFlag(b)
    \/ CallGetProcessDefaultMemoryManager
    \/ \E cap \in Caps : CallGetDefaultMemoryPool(cap)

SpecMgr == InitParked /\ [][NextMgr]_vars

\* A caller of the mapped-memory allocator.
NextAlloc ==
    \/ \E size \in Sizes : CallAlloc(size)
    \/ \E a \in Alignments, size \in Sizes : CallAllocAligned(a, size)
    \/ \E args \in OwnedArgs, newSize \in Sizes :
          CallRealloc(args[1], args[2], newSize)
    \/ \E args \in OwnedArgs, a \in Alignments, newSize \in Sizes :
          CallReallocAligned(args[1], a, args[2], newSize)
    \/ \E args \in OwnedArgs : CallFree(args[1], args[2])

SpecAlloc == InitParked /\ [][NextAlloc]_vars

\* A caller of the heap allocator.
NextHeap ==
    \/ \E size \in Sizes : CallHeapAlloc(size)
    \/ \E z \in ZeroFilledArgs : CallHeapAllocZeroFilled(z[1], z[2])
    \/ \E a \in Alignments, size \in Sizes : CallHeapAllocAligned(a, size)
    \/ \E args \in OwnedArgs, newSize \in Sizes :
          CallHeapRealloc(args[1], args[2], newSize)
    \/ \E args \in SizedArgs, a \in Alignments, newSize \in HeapNewSizes :
          CallHeapReallocAligned(args[1], a, args[2], newSize)
    \/ \E args \in OwnedArgs : CallHeapFree(args[1], args[2])

SpecHeap == InitParked /\ [][NextHeap]_vars

\* A caller that allocates from and frees to the allocator of the process
\* default manager: the mapped-memory allocator with the flag set, the heap
\* allocator without.
InitAllocators ==
    /\ ParkedPools /\ ParkedSize /\ InitAlloc
    /\ flag \in BOOLEAN
    /\ constructed = {SelectedVariant(flag)}
    /\ firstMgr = SelectedVariant(flag)
    /\ lastMgr = SelectedVariant(flag)
    /\ rootPools = [v \in Variants |-> <<>>]
    /\ lastPoolMgr = NoManager

NextAllocators ==
    \/ flag /\ \E size \in Sizes : CallAlloc(size)
    \/ flag /\ \E z \in ZeroFilledArgs : CallMmapAllocZeroFilled(z[1], z[2])
    \/ flag /\ \E args \in OwnedArgs : CallFree(args[1], args[2])
    \/ ~flag /\ \E size \in Sizes : CallHeapAlloc(size)
    \/ ~flag /\ \E z \in ZeroFilledArgs :
                   CallHeapAllocZeroFilled(z[1], z[2])
    \/ ~flag /\ \E args \in OwnedArgs : CallHeapFree(args[1], args[2])

SpecAllocators == InitAllocators /\ [][NextAllocators]_vars

(***************************************************************************)
(* Properties of the pool tree.                                            *)
(***************************************************************************)
\* Thread t takes a step of its call.
StepOf(t) == pc'[t] # pc[t] \/ op'[t] # op[t]

Range(s) == {s[i] : i \in 1 .. Len(s)}

\* p has a live child named n.
HasLiveChildNamed(p, n) ==
    \E c \in Pools : parent[c] = p /\ life[c] = "live" /\ name[c] = n

\* No pool under p, alive or in teardown, is named n.
NoChildNamed(p, n) ==
    ~\E c \in Pools : parent[c] = p /\ life[c] \in {"live", "dtor"} /\ name[c] = n

\* C1: an addChild(name) on a parent that has a live child of that name fails
\* and leaves every child set as it was; an addChild with a name no child of
\* the parent has does not fail and goes on to construct the child.
C1_DuplicateNameFails ==
    [][\A t \in Threads :
          (pc[t] = "ac_lock" /\ StepOf(t)) =>
              /\ HasLiveChildNamed(op[t].pool, op[t].name) =>
                     /\ op'[t] = Done("addChild", "failed")
                     /\ pc'[t] = "idle"
                     /\ children' = children
                     /\ life' = life
              /\ NoChildNamed(op[t].pool, op[t].name) =>
                     /\ op'[t].status = "running"
                     /\ pc'[t] = "ac_track"
                     /\ life'[op'[t].child] = "live"
                     /\ name'[op'[t].child] = op[t].name]_vars

\* A second addChild with the name of a live child has failed, and the parent
\* still has exactly that one child.
C1_Witness ==
    \E t \in Threads, c \in Pools :
        /\ op[t] = Done("addChild", "failed") /\ pc[t] = "idle"
        /\ children[RootPool] = <<c>> /\ life[c] = "live"

\* No addChild call on p is between its call and its return.
NoAddChildInFlight(p) ==
    \A t \in Threads :
        pc[t] \in {"ac_lock", "ac_track", "ac_emplace"} => op[t].pool # p

\* The pools constructed under p.
CreatedUnder(p) == {c \in Pools : parent[c] = p /\ life[c] # "unborn"}

\* C2: addChild calls with names that differ from every child's never fail,
\* and once all addChild calls on a parent have returned and none of its
\* children was destroyed, getChildCount() is the number of children
\* constructed under it and the child set holds each of them once.
C2_ConcurrentAddChild ==
    /\ [](\A p \in Pools :
            (life[p] = "live" /\ NoAddChildInFlight(p)
               /\ \A c \in CreatedUnder(p) : life[c] = "live") =>
                 /\ getChildCount(p) = Cardinality(CreatedUnder(p))
                 /\ Range(children[p]) = CreatedUnder(p))
    /\ [][\A t \in Threads :
            (pc[t] = "ac_lock" /\ op'[t].status = "failed") =>
                ~NoChildNamed(op[t].pool, op[t].name)]_vars

\* Both threads have added a child to the root, under different names.
C2_Witness ==
    /\ \A t \in Threads : op[t] = Done("addChild", "ok") /\ pc[t] = "idle"
    /\ getChildCount(RootPool) = 2
    /\ \A c \in Range(children[RootPool]) : life[c] = "live"

RECURSIVE Ancestors(_)
Ancestors(c) ==
    IF parent[c] = NoPool THEN {} ELSE {parent[c]} \cup Ancestors(parent[c])

\* C3: every ancestor of a pool that is alive or in its teardown is alive,
\* with a positive use count: no pool's destructor has started while a
\* descendant of it was not yet destroyed.
C3_ParentOutlivesDescendants ==
    \A c \in Pools :
        life[c] \in {"live", "dtor"} =>
            \A a \in Ancestors(c) : life[a] = "live" /\ refs[a] >= 1

\* The last caller's handle of a parent is gone while a child lives, and a
\* grandchild lives below it: the parent is still alive.
C3_Witness ==
    \E c \in Pools :
        /\ life[c] = "live" /\ parent[c] # NoPool
        /\ ~held[parent[c]] /\ life[parent[c]] = "live"
        /\ \E d \in Pools : life[d] = "dtor" /\ parent[d] = c

\* C4: the destructor of a pool whose child set is not empty fails its check,
\* changes no child set and does not reach dropChild; the destructor of a pool
\* whose child set is empty passes, and with a parent it calls dropChild,
\* which removes exactly this pool from the parent's child set.
C4_DestructorContract ==
    [][\A t \in Threads :
          /\ (pc[t] = "dt_check" /\ StepOf(t)) =>
                IF children[op[t].pool] # <<>>
                THEN /\ aborted'
                     /\ op'[t].status = "children_not_empty"
                     /\ pc'[t] = "dt_check"
                     /\ children' = children
                     /\ life' = life
                ELSE /\ ~aborted'
                     /\ pc'[t] = IF parent[op[t].pool] = NoPool
                                 THEN "dt_members" ELSE "dt_drop"
                     /\ children' = children
          /\ (pc[t] = "dt_drop" /\ StepOf(t)) =>
                LET c == op[t].pool
                    p == parent[c]
                IN  /\ ~aborted'
                    /\ Range(children'[p]) = Range(children[p]) \ {c}
                    /\ Len(children'[p]) = Len(children[p]) - 1
                    /\ \A q \in Pools \ {p} : children'[q] = children[q]]_vars

\* One child was destroyed and left its parent's child set; then the parent
\* was destroyed while another child was still registered, and that failed.
C4_Witness ==
    /\ aborted
    /\ \E t \in Threads :
          /\ op[t].status = "children_not_empty"
          /\ Len(children[op[t].pool]) = 1
          /\ \E c \in Pools : life[c] = "dead" /\ parent[c] = op[t].pool

\* C5: a pool is constructed with the capped flag its parent has at that
\* moment, and a step that caps a pool changes the capped flag of none of
\* its already existing children.
C5_CapInheritedOnce ==
    [][/\ \A c \in Pools :
            (life[c] = "unborn" /\ life'[c] = "live") =>
                capped'[c] = capped[parent'[c]]
       /\ \A c \in Pools :
            (/\ life[c] = "live" /\ life'[c] = "live" /\ parent[c] # NoPool
             /\ ~capped[parent[c]] /\ capped'[parent[c]]) =>
                capped'[c] = capped[c]]_vars

\* The root was capped between the creation of its two children: the first
\* is still uncapped, the second was born capped.
C5_Witness ==
    /\ capped[RootPool]
    /\ children[RootPool] = <<1, 2>>
    /\ ~capped[1] /\ capped[2]
    /\ life[1] = "live" /\ life[2] = "live"

(***************************************************************************)
(* Properties of getPreferredSize.                                         *)
(***************************************************************************)
\* The largest size whose size class fits a size_t: 2^(w-1) + 2^(w-2).
LargestClass == Pow2(SizeBits - 1) + Pow2(SizeBits - 2)

\* C6 as stated: for every size, size <= getPreferredSize(size) <= 2 * size.
C6_Original ==
    prefSize # NoResult => prefSize >= reqSize /\ prefSize <= 2 * reqSize

\* C6: for every size from 4 up to the largest size class,
\* size <= getPreferredSize(size) <= 2 * size; below 4 the result is 8, more
\* than twice the size; above the largest size class the result wraps to 0.
C6_PreferredSizeBounds ==
    prefSize # NoResult =>
        /\ (4 <= reqSize /\ reqSize <= LargestClass) =>
               prefSize >= reqSize /\ prefSize <= 2 * reqSize
        /\ reqSize < 4 => prefSize = 8 /\ prefSize > 2 * reqSize
        /\ reqSize > LargestClass => prefSize = 0 /\ prefSize < reqSize

\* The smallest size the bounds hold for: 4 gets 8, twice the size.
C6_Witness == reqSize = 4 /\ prefSize = 8

\* The reference size class, in exact integer arithmetic.
RefLower(r) ==
    CHOOSE q \in {Pow2(k) : k \in 0 .. SizeBits} : q <= r /\ r < 2 * q

RefPreferredSize(r) ==
    IF r < 8 THEN 8
    ELSE LET lower == RefLower(r)
         IN  IF r = lower THEN r
             ELSE IF 2 * r <= 3 * lower THEN (3 * lower) \div 2
             ELSE 2 * lower

\* C7: for every size up to the largest size class, getPreferredSize is the
\* reference size class; every power of two from 8 on maps to itself, and
\* 5 -> 8, 8 -> 8, 9 -> 12, 12 -> 12, 13 -> 16.
C7_MatchesReference ==
    prefSize # NoResult =>
        /\ reqSize <= LargestClass => prefSize = RefPreferredSize(reqSize)
        /\ (reqSize >= 8 /\ \E k \in 0 .. (SizeBits - 1) : reqSize = Pow2(k)) =>
               prefSize = reqSize
        /\ reqSize = 5 => prefSize = 8
        /\ reqSize = 8 => prefSize = 8
        /\ reqSize = 9 => prefSize = 12
        /\ reqSize = 12 => prefSize = 12
        /\ reqSize = 13 => prefSize = 16

\* A size exactly at 1.5 times a power of two keeps its size.
C7_Witness == reqSize = 12 /\ prefSize = 12

(***************************************************************************)
(* Properties of the process default manager.                              *)
(***************************************************************************)
\* C8 as stated: after the first getProcessDefaultMemoryManager() call every
\* later call returns the manager the first one returned, whatever the flag
\* is by then, and getDefaultMemoryPool creates its pools under that
\* manager's root only.
C8_Original ==
    firstMgr # NoManager =>
        /\ lastMgr = firstMgr
        /\ lastPoolMgr \in {NoManager, firstMgr}
        /\ constructed = {firstMgr}

(***************************************************************************)
(* Properties of the mapped-memory allocator.                              *)
(***************************************************************************)
\* The call made an allocateBytes request that came back null.
AllocationFailed(call) ==
    \E i \in 1 .. Len(call.mm) :
        call.mm[i][1] = "allocateBytes" /\ call.mm[i][3] = Null

\* C9: allocAligned and reallocAligned end in the unsupported-operation
\* failure, with no call to the mapping manager and no block changed; alloc
\* and realloc never end in that failure, and report a failed allocation as
\* the null result.
C9_AlignedUnsupported ==
    /\ [](/\ lastCall.op \in {"allocAligned", "reallocAligned"} =>
                /\ lastCall.res = Unsupported
                /\ lastCall.res.kind \notin {"ptr", "null"}
                /\ lastCall.mm = <<>>
          /\ lastCall.op \in {"alloc", "realloc"} =>
                /\ lastCall.res.kind \in {"ptr", "null"}
                /\ AllocationFailed(lastCall) => lastCall.res.kind = "null")
    /\ [][(lastCall' # lastCall
             /\ lastCall'.op \in {"allocAligned", "reallocAligned"}) =>
               blocks' = blocks]_vars

\* reallocAligned was called on a block the caller owns; the call was refused
\* and the block is still there.
C9_Witness ==
    /\ lastCall.op = "reallocAligned"
    /\ lastCall.p # Null
    /\ lastCall.res.kind = "unsupported"
    /\ blocks[lastCall.p] # Free

\* C10: a realloc of a non-null block whose new allocation fails returns
\* null, makes no freeBytes call, copies nothing and leaves every block as it
\* was; alloc and realloc report a failed allocation as null.
C10_ReallocFailureKeepsBlock ==
    /\ []((lastCall.op = "realloc" /\ lastCall.p # Null
             /\ AllocationFailed(lastCall)) =>
               /\ lastCall.res = Pointer(Null)
               /\ lastCall.mm = <<<<"allocateBytes", lastCall.newSize, Null>>>>
               /\ lastCall.copied = 0
               /\ blocks[lastCall.p] # Free
               /\ blocks[lastCall.p].size = lastCall.size)
    /\ []((lastCall.op = "alloc" /\ AllocationFailed(lastCall)) =>
               lastCall.res = Pointer(Null))
    /\ [][(lastCall' # lastCall /\ lastCall'.op = "realloc"
             /\ lastCall'.p # Null /\ AllocationFailed(lastCall')) =>
               blocks' = blocks]_vars

\* A realloc of an owned block has failed while an address was still free:
\* the result is null and the block is still outstanding.
C10_Witness ==
    /\ lastCall.op = "realloc"
    /\ lastCall.p # Null
    /\ lastCall.res.kind = "null"
    /\ blocks[lastCall.p] # Free
    /\ Outstanding(blocks) # Ptrs

\* C11: realloc of a null block is alloc of the new size, whatever the old
\* size: from every state the two calls have the same outcomes (result, blocks
\* afterwards, calls to the mapping manager), and such a realloc makes exactly
\* one allocateBytes(newSize) call, no freeBytes call and no copy, and returns
\* what allocateBytes returned, null included.
C11_ReallocNullIsAlloc ==
    /\ \A size \in Sizes, newSize \in Sizes :
          MmapRealloc(blocks, Null, size, newSize) = MmapAlloc(blocks, newSize)
    /\ (lastCall.op = "realloc" /\ lastCall.p = Null) =>
          /\ lastCall.res.kind \in {"ptr", "null"}
          /\ lastCall.mm = <<<<"allocateBytes", lastCall.newSize,
                               lastCall.res.ptr>>>>
          /\ lastCall.copied = 0
          /\ lastCall.res.kind = "ptr" =>
                blocks[lastCall.res.ptr].size = lastCall.newSize

\* A realloc of null with an old size other than the new size has returned a
\* block.
C11_Witness ==
    /\ lastCall.op = "realloc"
    /\ lastCall.p = Null
    /\ lastCall.size # lastCall.newSize
    /\ lastCall.res.kind = "ptr"

\* Child vectors: the sequences of distinct pools.
ChildSeqs ==
    UNION {{s \in [1 .. n -> Pools] :
               \A i, j \in 1 .. n : i # j => s[i] # s[j]} : n \in 0 .. MaxPools}

\* s without its entries for c, the others in their order.
Without(s, c) == SelectSeq(s, LAMBDA x : x # c)

\* dropChild on every child vector and every pool: a registered child is
\* found and exactly its entry goes; a pool that is not registered fails the
\* check and the vector stays as it was.
DropChildContract ==
    \A s \in ChildSeqs, c \in Pools :
        LET r == dropChild(s, c)
        IN  /\ r.found = (c \in Range(s))
            /\ r.children = Without(s, c)
            /\ ~r.found => r.children = s

\* C12: dropChild(child) removes exactly the entry for child and keeps the
\* other entries in their order; for a child that is not registered it fails
\* the check and leaves the vector as it was. In a run, an entry leaves a child
\* vector only by the dropChild call of that child's own destructor, a pool
\* that has left is never registered again, a destroyed pool is in no child
\* vector, and no dropChild call fails: each child is dropped exactly once.
C12_DropChildExact ==
    /\ [](/\ DropChildContract
          /\ ~aborted
          /\ \A c \in Pools :
                (life[c] = "dead" /\ parent[c] # NoPool) =>
                    c \notin Range(children[parent[c]]))
    /\ [][\A p \in Pools :
            /\ \A c \in Range(children[p]) \ Range(children'[p]) :
                  \E t \in Threads :
                      /\ pc[t] = "dt_drop" /\ pc'[t] = "dt_members"
                      /\ op[t].kind = "destroy" /\ op[t].pool = c
                      /\ life[c] = "dtor" /\ parent[c] = p
                      /\ children'[p] = Without(children[p], c)
                      /\ \A q \in Pools \ {p} : children'[q] = children[q]
            /\ \A c \in Range(children'[p]) \ Range(children[p]) :
                  life[c] = "unborn" \/ (life[c] = "live" /\ ~held[c])
            /\ \A t \in Threads :
                  (pc[t] = "dt_drop" /\ pc'[t] # "dt_drop"
                     /\ parent[op[t].pool] = p) =>
                        /\ op[t].pool \in Range(children[p])
                        /\ op[t].pool \notin Range(children'[p])]_vars

\* A destructor has dropped its pool from a parent that keeps another child.
C12_Witness ==
    \E t \in Threads :
        /\ pc[t] = "dt_members"
        /\ parent[op[t].pool] # NoPool
        /\ children[parent[op[t].pool]] # <<>>
        /\ op[t].pool \notin Range(children[parent[op[t].pool]])

(***************************************************************************)
(* Properties of the two allocators.                                       *)
(***************************************************************************)
\* C13: free of a null block is a no-op for every size on both allocators:
\* the mapped-memory allocator makes no call to the mapping manager, the heap
\* allocator hands the null to the library's free, which does nothing, and
\* in both the outstanding blocks stay as they were.
C13_FreeNullNoOp ==
    /\ [](/\ \A size \in Sizes :
                /\ MmapFree(blocks, Null, size) =
                       {Outcome(NoValue, blocks, <<>>, 0)}
                /\ \A o \in HeapFree(blocks, Null, size) :
                       o.blocks = blocks /\ o.res = NoValue
          /\ (lastCall.op = "free" /\ lastCall.p = Null) =>
                /\ lastCall.res = NoValue
                /\ lastCall.copied = 0
                /\ \A i \in 1 .. Len(lastCall.mm) :
                       /\ lastCall.mm[i][1] # "freeBytes"
                       /\ lastCall.mm[i][2] = Null
                /\ flag => lastCall.mm = <<>>)
    /\ [][(lastCall'.op = "free" /\ lastCall'.p = Null) =>
             /\ blocks' = blocks
             /\ Outstanding(blocks') = Outstanding(blocks)]_vars

\* The mapped-memory allocator's free was called on null with a size that is
\* not zero while a block was outstanding.
C13_Witness ==
    /\ flag
    /\ lastCall.op = "free"
    /\ lastCall.p = Null
    /\ lastCall.size > 0
    /\ Outstanding(blocks) # {}

(***************************************************************************)
(* Properties of the children lock.                                        *)
(***************************************************************************)
\* Thread t makes the usageTracker->addChild() call of addChild in this step.
CallsTracker(t) ==
    /\ pc[t] = "ac_track" /\ pc'[t] = "ac_emplace"
    /\ tracker[op[t].pool]

\* C14: no thread holds a pool's children lock while it calls into the usage
\* tracker: the step of addChild that calls the tracker's addChild() is taken
\* by a thread that does not hold the exclusive children lock of the pool.
C14_Original ==
    [][\A t \in Threads : CallsTracker(t) => mutex[op[t].pool] # t]_vars

(***************************************************************************)
(* Properties of visitChildren.                                            *)
(***************************************************************************)
\* C15: every pool the visitor of visitChildren is given is a pool whose
\* destructor has not started.
C15_Original ==
    [][\A t \in Threads :
          (pc[t] = "vc_visit" /\ op'[t].ret = op[t].ret + 1) =>
              life[op'[t].child] = "live"]_vars

\* Thread t waits for a children lock that it cannot get now.
Blocked(t) ==
    \/ pc[t] = "ac_lock" /\ ~WriteHolderAcquirable(op[t].pool)
    \/ pc[t] = "vc_lock" /\ ~ReadHolderAcquirable(op[t].pool)
    \/ pc[t] = "dt_drop" /\ ~WriteHolderAcquirable(parent[op[t].pool])

CallsTo(mm, fn) == {i \in 1 .. Len(mm) : mm[i][1] = fn}

\* C17: with callers that pass each block with the size it was allocated
\* with, every freeBytes(p, s) is for an outstanding block p that
\* allocateBytes(s) returned, and p is not outstanding afterwards, so that no
\* block is freed twice; every block allocateBytes returns is outstanding
\* with the size asked for; and a successful realloc of a block frees the old
\* block once and leaves one new outstanding block of the new size.
C17_SizePairing ==
    [][LET mm == lastCall'.mm
       IN  (lastCall' # lastCall \/ blocks' # blocks) =>
           /\ Cardinality(CallsTo(mm, "freeBytes")) <= 1
           /\ \A i \in CallsTo(mm, "freeBytes") :
                 /\ mm[i][2] \in Outstanding(blocks)
                 /\ mm[i][3] = blocks[mm[i][2]].size
                 /\ mm[i][2] \notin Outstanding(blocks')
           /\ \A i \in CallsTo(mm, "allocateBytes") :
                 mm[i][3] # Null =>
                    /\ mm[i][3] \notin Outstanding(blocks)
                    /\ mm[i][3] \in Outstanding(blocks')
                    /\ blocks'[mm[i][3]].size = mm[i][2]
           /\ \A q \in Outstanding(blocks) \cap Outstanding(blocks') :
                 blocks'[q].size = blocks[q].size
           /\ (lastCall'.op = "realloc" /\ lastCall'.p # Null
                 /\ lastCall'.res.kind = "ptr") =>
                 /\ mm = <<<<"allocateBytes", lastCall'.newSize,
                             lastCall'.res.ptr>>,
                           <<"freeBytes", lastCall'.p, lastCall'.size>>>>
                 /\ Outstanding(blocks') =
                       (Outstanding(blocks) \ {lastCall'.p})
                          \cup {lastCall'.res.ptr}
                 /\ lastCall'.res.ptr # lastCall'.p
                 /\ blocks'[lastCall'.res.ptr].size = lastCall'.newSize]_vars

\* A realloc of an owned block to another size has succeeded.
C17_Witness ==
    /\ lastCall.op = "realloc"
    /\ lastCall.p # Null
    /\ lastCall.res.kind = "ptr"
    /\ lastCall.size # lastCall.newSize
    /\ Len(lastCall.mm) = 2

(***************************************************************************)
(* Consistency of the child sets.                                          *)
(***************************************************************************)
\* No addChild and no destructor is in progress.
Quiescent ==
    \A t \in Threads :
        pc[t] \notin {"ac_lock", "ac_track", "ac_emplace",
                      "dt_check", "dt_drop", "dt_members"}

\* The children of p that are alive, and those that were destroyed.
LiveChildren(p) == {c \in Pools : parent[c] = p /\ life[c] = "live"}
DestroyedUnder(p) == {c \in Pools : parent[c] = p /\ life[c] = "dead"}

\* Pools are numbered as they are constructed: s is in creation order, each
\* pool at most once.
InCreationOrder(s) == \A i, j \in 1 .. Len(s) : i < j => s[i] < s[j]

\* C18: whenever no addChild and no destructor is in progress, each child
\* vector holds exactly the live pools whose parent is that pool, each once and
\* in creation order, and getChildCount() is the number of children
\* constructed under the pool minus the number of those destroyed;
\* visitChildren never changes a child vector, gives the visitor the entries
\* one by one in their order and has given it each entry once when it returns.
C18_ChildSetConsistent ==
    /\ [](Quiescent =>
            \A p \in Pools :
                /\ InCreationOrder(children[p])
                /\ Range(children[p]) = LiveChildren(p)
                /\ getChildCount(p) = Cardinality(CreatedUnder(p))
                                        - Cardinality(DestroyedUnder(p)))
    /\ [][\A t \in Threads :
            /\ (Quiescent /\ op'[t] # op[t]
                  /\ op'[t].kind = "getChildCount") =>
                  \E p \in Pools :
                      /\ Callable(p)
                      /\ op'[t].ret = Cardinality(LiveChildren(p))
                      /\ op'[t].ret = Len(children[p])
            /\ pc[t] = "vc_visit" =>
                  /\ children'[op[t].pool] = children[op[t].pool]
                  /\ op[t].snap = SubSeq(children[op[t].pool], 1, op[t].ret)
                  /\ pc'[t] = "idle" => op[t].snap = children[op[t].pool]
                  /\ (Quiescent /\ op'[t].ret = op[t].ret + 1) =>
                        op'[t].child \in LiveChildren(op[t].pool)]_vars

\* A visitChildren call has given the visitor the one child left in a pool
\* whose first child was destroyed, and is about to return.
C18_Witness ==
    \E t \in Threads :
        /\ pc[t] = "vc_visit"
        /\ Quiescent
        /\ op[t].ret = 1
        /\ op[t].snap = children[op[t].pool]
        /\ DestroyedUnder(op[t].pool) # {}

(***************************************************************************)
(* Properties of the heap allocator.                                       *)
(***************************************************************************)
\* C19: reallocAligned of the heap allocator with a new size of zero or less
\* returns null, calls nothing and leaves every block as it was; with a
\* positive new size and a successful aligned allocation it copies
\* min(size, newSize) bytes of the old block into the new one, frees the old
\* block once and returns the new block; with a positive new size and a
\* failed allocation it returns null and the old block stays.
C19_HeapReallocAligned ==
    [][LET call == lastCall'
           n == Min(call.size, call.newSize)
       IN  ((lastCall' # lastCall \/ blocks' # blocks)
              /\ call.op = "reallocAligned") =>
           /\ call.newSize <= 0 =>
                 /\ call.res = Pointer(Null)
                 /\ call.mm = <<>>
                 /\ call.copied = 0
                 /\ blocks' = blocks
           /\ (call.newSize > 0 /\ call.res.kind = "ptr") =>
                 /\ call.mm = <<<<"aligned_alloc", call.newSize, call.res.ptr>>,
                                <<"free", call.p>>>>
                 /\ call.copied = n
                 /\ call.res.ptr \notin Outstanding(blocks)
                 /\ blocks'[call.res.ptr].size = call.newSize
                 /\ \A i \in 1 .. n :
                       blocks'[call.res.ptr].data[i] = blocks[call.p].data[i]
                 /\ Outstanding(blocks') =
                       (Outstanding(blocks) \ {call.p}) \cup {call.res.ptr}
           /\ (call.newSize > 0 /\ call.res.kind # "ptr") =>
                 /\ call.res = Pointer(Null)
                 /\ call.mm = <<<<"aligned_alloc", call.newSize, Null>>>>
                 /\ call.copied = 0
                 /\ blocks' = blocks]_vars

\* reallocAligned has moved an owned block, copying a byte that was set.
C19_Witness ==
    /\ lastCall.op = "reallocAligned"
    /\ lastCall.p # Null
    /\ lastCall.res.kind = "ptr"
    /\ lastCall.copied = 1
    /\ blocks[lastCall.res.ptr].data[1] = 1
    /\ blocks[lastCall.p] = Free

(***************************************************************************)
(* Properties of allocZeroFilled.                                          *)
(***************************************************************************)
\* C20: allocZeroFilled(count, sizeEach) on either allocator returns null or
\* a block of zero bytes that is not smaller than count * sizeEach bytes,
\* also when that product does not fit the word; a call whose allocation
\* failed returns null and has written nothing.
C20_Original ==
    lastCall.op = "allocZeroFilled" =>
        /\ lastCall.res.kind \in {"ptr", "null"}
        /\ lastCall.res.kind = "ptr" =>
              /\ blocks[lastCall.res.ptr].size >= lastCall.size * lastCall.newSize
              /\ blocks[lastCall.res.ptr].data =
                     Zeros(blocks[lastCall.res.ptr].size)

====
